---- MODULE Spec2Model ----
(***************************************************************************)
(* A model of the Go template renderer of k8s-manifest-kit:                *)
(*   - sourceHolder.Validate / sourceHolder.LoadTemplates                  *)
(*     (pkg/gotemplate_support.go),                                        *)
(*   - NewEngine (pkg/engine.go),                                          *)
(*   - DefaultCacheKey / FastCacheKey / PathOnlyCacheKey and newCache.     *)
(* Strings are sequences of symbols, so that trimming, glob matching and   *)
(* key formatting are computed rather than assumed.                        *)
(***************************************************************************)
EXTENDS Integers, Sequences, FiniteSets, TLC

VARIABLES
    files,       \* the backing file collection h.FS: file name -> content kind
    hPath,       \* h.Path, the selector pattern of the holder
    templates,   \* h.templates, the compiled-template field
    mu,          \* h.mu: 0 when free, else the caller holding it
    pc,          \* position of each caller inside LoadTemplates
    tmpl,        \* LoadTemplates' local tmpl, per caller
    ret,         \* what LoadTemplates returned to each caller
    parseCount,  \* number of template.ParseFS executions so far
    failCount,   \* number of template.ParseFS executions that failed
    calls,       \* number of LoadTemplates invocations started
    fsChanges,   \* number of changes made to the file collection
    enteredLoaded, \* per caller: h.templates was populated when its call began
    source,      \* the Source handed to New / NewEngine
    built,       \* what New / NewEngine returned
    specA,       \* a TemplateSpec: [Path, Values]
    specB,       \* a second TemplateSpec
    opts,        \* the caller's *cache.Options handed to newCache
    cacheKF,     \* the KeyFunc of the cache newCache built
    keyA,        \* the cache key derived for specA
    keyB,        \* the cache key derived for specB
    inputs,      \* Renderer.inputs: the holders, each [Path, Values, templates]
    cfg,         \* RendererOptions: [annotations, filters, transformers]
    cache,       \* the render cache: key -> [refs, stored]
    heap,        \* the objects in memory, by reference
    results,     \* what each Process call so far returned
    expiries,    \* number of cache entries that expired so far
    mutations,   \* number of times a caller changed an object it was returned
    sourceValues,      \* the base value tree handed to util.DeepMerge
    renderTimeValues,  \* the override value tree handed to util.DeepMerge
    mergedValues,      \* what util.DeepMerge returned
    rpc,               \* position of each caller inside a concurrent Process
    rcall              \* each concurrent Process call's arguments and locals

holderVars ==
    <<files, hPath, templates, mu, pc, tmpl, ret, parseCount, failCount, calls, fsChanges,
      enteredLoaded>>

newVars == <<source, built>>

keyVars == <<specA, specB, opts, cacheKF, keyA, keyB>>

procVars == <<inputs, cfg, cache, heap, results, expiries, mutations>>

mergeVars == <<sourceValues, renderTimeValues, mergedValues>>

raceVars == <<rpc, rcall>>

restVars == <<mergeVars, raceVars>>

nonHolderVars == <<newVars, keyVars, procVars, restVars>>

vars == <<holderVars, nonHolderVars>>

(***************************************************************************)
(* Bounds                                                                  *)
(***************************************************************************)
NumCallers == 2

MaxCalls == 3

MaxFsChanges == 1

Callers == 1..NumCallers

(***************************************************************************)
(* File collection and selector patterns                                   *)
(***************************************************************************)
FileNames == {<<"a">>, <<"b">>}

\* absent: no such file; bad: content that does not parse; v1, v2: two
\* different contents that parse.
FileKinds == {"absent", "bad", "v1", "v2"}

HolderPaths == {<<"*">>, <<"a">>, <<"a", "*">>, <<"b">>}

InitialFiles ==
    { [n \in FileNames |-> "v1"],
      [n \in FileNames |-> IF n = <<"a">> THEN "v1" ELSE "bad"],
      [n \in FileNames |-> IF n = <<"a">> THEN "absent" ELSE "v1"] }

\* path.Match restricted to literal symbols and "*".
RECURSIVE GlobMatch(_, _)
GlobMatch(pat, name) ==
    IF pat = <<>> THEN name = <<>>
    ELSE IF Head(pat) = "*"
         THEN GlobMatch(Tail(pat), name)
              \/ (name # <<>> /\ GlobMatch(pat, Tail(name)))
         ELSE name # <<>> /\ Head(name) = Head(pat)
              /\ GlobMatch(Tail(pat), Tail(name))

Glob(fs, pat) == {n \in FileNames : fs[n] # "absent" /\ GlobMatch(pat, n)}

(***************************************************************************)
(* Template sets.  id is the identity of the *template.Template (0: nil),  *)
(* body the parsed files with the content each was parsed from, strict     *)
(* whether missingkey=error is set.                                        *)
(***************************************************************************)
NilTemplate == [id |-> 0, body |-> {}, strict |-> FALSE]

NoError == [kind |-> "nil", path |-> <<>>, cause |-> "nil"]

\* A glob-then-parse that forgets the empty match set.
ParseFSEmptyOk(fs, pat, newId) ==
    LET matched == Glob(fs, pat) IN
    IF \E n \in matched : fs[n] = "bad"
    THEN [tmpl |-> NilTemplate, err |-> "syntax error"]
    ELSE [tmpl |-> [id |-> newId, body |-> {<<n, fs[n]>> : n \in matched},
                    strict |-> FALSE],
          err |-> "nil"]

\* template.ParseFS(fsys, pattern): an error when the pattern matches no
\* file or a matched file does not parse, else a new template set.
ParseFS(fs, pat, newId) ==
    LET matched == Glob(fs, pat) IN
    IF matched = {}
    THEN [tmpl |-> NilTemplate, err |-> "pattern matches no files"]
    ELSE IF \E n \in matched : fs[n] = "bad"
    THEN [tmpl |-> NilTemplate, err |-> "syntax error"]
    ELSE [tmpl |-> [id |-> newId, body |-> {<<n, fs[n]>> : n \in matched},
                    strict |-> FALSE],
          err |-> "nil"]

\* fmt.Errorf("failed to parse templates (path: %s): %w", h.Path, err)
ParseError(path, cause) == [kind |-> "ParseError", path |-> path, cause |-> cause]

\* The parsed set is handed on with no option set.
NoOption(t) == t

\* tmpl.Option("missingkey=error")
MissingKeyError(t) == [t EXCEPT !.strict = TRUE]

\* The error of ParseFS is dropped.
ErrIgnored(r) == FALSE

\* if err != nil
ParseFailed(r) == r.err # "nil"

\* The stored set is never looked at.
NeverLoaded(t) == FALSE

\* if h.templates != nil
IsLoaded(t) == t # NilTemplate

\* A guard that excludes nobody.
LockIgnored(m) == TRUE

\* h.mu.Lock() can proceed
CanLock(m) == m = 0

(***************************************************************************)
(* Construction: sourceHolder.Validate, New, NewEngine                     *)
(***************************************************************************)
MaxPathLen == 3

PathChars == {"a", "*", " ", "\t"}

\* The white space strings.TrimSpace removes (of PathChars).
WhiteSpace == {" ", "\t"}

NilFS == "nil"

RECURSIVE SeqsUpTo(_, _)
SeqsUpTo(S, n) ==
    IF n = 0 THEN {<<>>}
    ELSE LET shorter == SeqsUpTo(S, n - 1) IN
         shorter \cup {Append(q, x) : q \in shorter, x \in S}

Sources == [FS : {NilFS, "fs"}, Path : SeqsUpTo(PathChars, MaxPathLen)]

RECURSIVE TrimLeft(_)
TrimLeft(str) ==
    IF str # <<>> /\ Head(str) \in WhiteSpace THEN TrimLeft(Tail(str)) ELSE str

RECURSIVE TrimRight(_)
TrimRight(str) ==
    IF str # <<>> /\ str[Len(str)] \in WhiteSpace
    THEN TrimRight(SubSeq(str, 1, Len(str) - 1))
    ELSE str

\* strings.TrimSpace
TrimSpace(str) == TrimRight(TrimLeft(str))

\* Validate comparing the raw path with "".
ValidateRawPath(src) ==
    IF src.FS = NilFS THEN <<"ErrFsRequired">>
    ELSE IF src.Path = <<>> THEN <<"ErrPathEmpty">>
    ELSE <<>>

\* sourceHolder.Validate
Validate(src) ==
    IF src.FS = NilFS THEN <<"ErrFsRequired">>
    ELSE IF TrimSpace(src.Path) = <<>> THEN <<"ErrPathEmpty">>
    ELSE <<>>

\* New(inputs, opts...): wraps every Source in a holder and validates it; a
\* holder starts with no compiled templates.
New(src) ==
    IF Validate(src) # <<>>
    THEN [kind |-> "nil", err |-> Validate(src)]
    ELSE [kind |-> "renderer", err |-> <<>>]

\* NewEngine(source, opts...)
NewEngineOf(src) ==
    LET r == New(src) IN
    IF r.err # <<>>
    THEN [kind |-> "nil", err |-> <<"failed to create gotemplate renderer">> \o r.err]
    ELSE [kind |-> "engine", err |-> <<>>]

NotBuilt == [kind |-> "unset", err |-> <<"unset">>]

(***************************************************************************)
(* Value trees and cache keys                                              *)
(*                                                                         *)
(* A value is nil, a string (a sequence of symbols) or a map from keys to  *)
(* values (map[string]any).  A symbol stands for a fixed piece of text;    *)
(* no symbol is a prefix of another, so two symbol sequences are equal     *)
(* exactly when the texts they stand for are equal.                        *)
(***************************************************************************)
Keys == {"a", "b"}

\* The keys in ascending string order.
KeySeq == <<"a", "b">>

NoMap == [k \in {} |-> 0]

NilValue == [t |-> "nil", s |-> <<>>, m |-> NoMap]

StrValue(str) == [t |-> "string", s |-> str, m |-> NoMap]

MapValue(f) == [t |-> "map", s |-> <<>>, m |-> f]

\* Maps over the keys D with the values V.
MapsOver(V) == UNION {[D -> V] : D \in SUBSET Keys}

\* The strings used as values: a plain one, and one that contains the text
\* the key formatter itself writes between two map entries.
LeafStrings == {<<"1">>, <<"1", " ", "b", ":", "(string)", "1">>}

Leaves == {StrValue(x) : x \in LeafStrings}

InnerMaps == {MapValue(f) : f \in [{} -> Leaves] \cup [{"a"} -> {StrValue(<<"1">>)}]}

ValueTrees == {NilValue} \cup {MapValue(f) : f \in MapsOver(Leaves \cup InnerMaps)}

SpecPaths == {<<"*">>, <<"a">>}

TemplateSpecs == [Path : SpecPaths, Values : ValueTrees]

\* The orders in which Go may iterate over a map's keys.
IterationOrders == {<<"a", "b">>, <<"b", "a">>}

\* reflect's v.MapKeys(): the keys of the map, in the iteration order.
MapKeys(f, ord) == SelectSeq(ord, LAMBDA k : k \in DOMAIN f)

\* Keys left in iteration order.
Unsorted(keys) == keys

\* spew's sortValues under SortKeys: true.
SortValues(keys) == SelectSeq(KeySeq, LAMBDA k : \E i \in 1..Len(keys) : keys[i] = k)

\* spew's formatter for "%#v" with SortKeys, DisableMethods, SpewKeys: a
\* value held in an interface is written as "(type)" and its content; a
\* string's content is written as it is, without quotes; a map is written
\* as map[k:v k:v] with the keys sorted.
RECURSIVE FormatValue(_, _)
RECURSIVE FormatEntries(_, _, _)
FormatEntries(f, keys, ord) ==
    IF keys = <<>> THEN <<>>
    ELSE <<Head(keys), ":">> \o FormatValue(f[Head(keys)], ord)
         \o (IF Tail(keys) = <<>> THEN <<>> ELSE <<" ">>)
         \o FormatEntries(f, Tail(keys), ord)

FormatValue(v, ord) ==
    IF v.t = "nil" THEN <<"(interface {})", "<nil>">>
    ELSE IF v.t = "string" THEN <<"(string)">> \o v.s
    ELSE <<"(map[string]interface {})", "map[">>
         \o FormatEntries(v.m, SortValues(MapKeys(v.m, ord)), ord)
         \o <<"]">>

\* dump.ForHash(spec) for a TemplateSpec{Path, Values}.
ForHash(spec, ord) ==
    <<"(gotemplate.TemplateSpec)", "{", "Path:", "(string)">> \o spec.Path
    \o <<" ", "Values:">> \o FormatValue(spec.Values, ord) \o <<"}">>

\* DefaultCacheKey()
DefaultCacheKey(spec, ord) == ForHash(spec, ord)

\* FastCacheKey()
FastCacheKey(spec, ord) == spec.Path

\* PathOnlyCacheKey()
PathOnlyCacheKey(spec, ord) == spec.Path

\* cache.DefaultKeyFunc, the default of the cache package.
DefaultKeyFunc(spec, ord) == ForHash(spec, ord)

KeyFuncs == {"DefaultCacheKey", "FastCacheKey", "PathOnlyCacheKey"}

\* Applying the key function named kf.
ApplyKeyFunc(kf, spec, ord) ==
    CASE kf = "DefaultCacheKey" -> DefaultCacheKey(spec, ord)
      [] kf = "FastCacheKey" -> FastCacheKey(spec, ord)
      [] kf = "PathOnlyCacheKey" -> PathOnlyCacheKey(spec, ord)
      [] kf = "cache.DefaultKeyFunc" -> DefaultKeyFunc(spec, ord)

NilOptions == [set |-> FALSE, KeyFunc |-> "nil"]

\* The *cache.Options a caller may pass: nil, or options with or without a
\* key function.
CacheOptions == {NilOptions} \cup [set : {TRUE}, KeyFunc : {"nil"} \cup KeyFuncs]

\* A newCache that installs the default whatever was supplied.
AlwaysDefault(kf) == TRUE

\* if co.KeyFunc == nil
KeyFuncMissing(kf) == kf = "nil"

\* A newCache that writes the default into the caller's struct (co := opts
\* with co a pointer).
InjectInPlace(o) ==
    IF o.set /\ o.KeyFunc = "nil" THEN [o EXCEPT !.KeyFunc = "cache.DefaultKeyFunc"] ELSE o

\* co := *opts: the injection writes to the copy co, so the struct opts
\* points to is what it was.
OptsAfterNewCache(o) == o

\* newCache(opts): the KeyFunc of the cache it builds ("none": no cache).
NewCacheKeyFunc(o) ==
    IF ~o.set THEN "none"
    ELSE IF KeyFuncMissing(o.KeyFunc) THEN "cache.DefaultKeyFunc"
    ELSE o.KeyFunc

(***************************************************************************)
(* Rendering: value merging, template execution, annotation, the pipeline  *)
(* and object copies                                                       *)
(***************************************************************************)
\* The templates of the file collection in enumeration order.
FileSeq == <<<<"a">>, <<"b">>>>

EmptyMap == MapValue(NoMap)

\* A nil value tree is the empty mapping.
AsMap(v) == IF v.t = "map" THEN v ELSE EmptyMap

\* A merge that lets the override replace whole top-level entries.
ShallowMerge(b, o) ==
    IF b.t = "map" /\ o.t = "map"
    THEN MapValue([k \in (DOMAIN b.m) \cup (DOMAIN o.m) |->
             IF k \in DOMAIN o.m THEN o.m[k] ELSE b.m[k]])
    ELSE o

\* util.DeepMerge(base, override): where both sides hold a map, merge key
\* by key; anywhere else the override replaces the base.
RECURSIVE DeepMerge(_, _)
DeepMerge(base, override) ==
    IF base.t = "map" /\ override.t = "map"
    THEN MapValue([k \in (DOMAIN base.m) \cup (DOMAIN override.m) |->
             IF k \notin DOMAIN override.m THEN base.m[k]
             ELSE IF k \notin DOMAIN base.m THEN override.m[k]
             ELSE DeepMerge(base.m[k], override.m[k])])
    ELSE override

\* A values function that hands back no map at all.
NoValues(values) == NilValue

\* Values(values): the function it returns hands back values on every call.
Values(values) == values

\* A merge that writes its result into the base map.
MergeIntoBase(b, o, result) == [base |-> result, override |-> o]

\* What the two maps handed to util.DeepMerge hold after it returned
\* result: the merge builds a new tree and writes into neither.
MergeWrites(b, o, result) == [base |-> b, override |-> o]

\* A dynamic values function that fails, e.g. on a cancelled context.
FailingValues == [t |-> "error", s |-> <<>>, m |-> NoMap]

ValuesError(path) == [kind |-> "ValuesError", path |-> path, cause |-> "values"]

\* h.Values(ctx): the value tree of the holder, or the function's error.
ResolveValues(h) ==
    IF h.Values = FailingValues
    THEN [values |-> NilValue, err |-> ValuesError(h.Path)]
    ELSE [values |-> Values(h.Values), err |-> NoError]

\* A Process that carries on after an error.
ErrorIgnored(err) == FALSE

\* if err != nil { return nil, err }
ProcessFailed(err) == err # NoError

\* What text/template writes for a missing key without missingkey=error.
NoValue == StrValue(<<"<no value>">>)

ExecutionError(path, name) ==
    [kind |-> "ExecutionError", path |-> path, cause |-> name]

NoObject == [tmpl |-> <<>>, ver |-> "", data |-> NilValue, ann |-> {}, labels |-> {}]

\* The annotations the manifest in file name carries by itself: that of b
\* has a note and a source-type of its own.
ManifestAnnotations(name) ==
    IF name = <<"b">>
    THEN {<<"note", <<"x">>>>, <<"source-type", <<"helm">>>>}
    ELSE {}

\* t.Execute(&buf, values) and the decoding of its output: the template of
\* file name references the value field called like the file.
Execute(t, name, path, values) ==
    LET ver == (CHOOSE e \in t.body : e[1] = name)[2]
        obj == [tmpl |-> name, ver |-> ver, data |-> NilValue,
                ann |-> ManifestAnnotations(name), labels |-> {}]
    IN
    IF name[1] \in DOMAIN values.m
    THEN [err |-> NoError, obj |-> [obj EXCEPT !.data = values.m[name[1]]]]
    ELSE IF t.strict
    THEN [err |-> ExecutionError(path, name), obj |-> NoObject]
    ELSE [err |-> NoError, obj |-> [obj EXCEPT !.data = NoValue]]

\* The templates of a set that reference a field the values do not define.
Undefined(t, values) ==
    {e[1] : e \in {x \in t.body : x[1][1] \notin DOMAIN values.m}}

\* The directly executable templates of a set, in order.
TemplatesOf(t) == SelectSeq(FileSeq, LAMBDA n : \E e \in t.body : e[1] = n)

\* Render every template of the set; the first failure ends the rendering.
RECURSIVE RenderFrom(_, _, _, _)
RenderFrom(t, names, path, values) ==
    IF names = <<>> THEN [err |-> NoError, objs |-> <<>>]
    ELSE LET x == Execute(t, Head(names), path, values) IN
         IF x.err # NoError THEN [err |-> x.err, objs |-> <<>>]
         ELSE LET rest == RenderFrom(t, Tail(names), path, values) IN
              IF rest.err # NoError THEN rest
              ELSE [err |-> NoError, objs |-> <<x.obj>> \o rest.objs]

Render(t, path, values) == RenderFrom(t, TemplatesOf(t), path, values)

SourceAnnotationKeys == {"source-type", "source-path", "source-file"}

\* The provenance annotations added only where the key is not yet set.
AnnotateMissing(obj, path) ==
    [obj EXCEPT !.ann = @ \cup
        {a \in {<<"source-type", <<"gotemplate">>>>,
                <<"source-path", path>>,
                <<"source-file", obj.tmpl>>} : \A b \in obj.ann : b[1] # a[1]}]

\* The three provenance annotations, set as an upsert.
AnnotateOne(obj, path) ==
    [obj EXCEPT !.ann = {a \in @ : a[1] \notin SourceAnnotationKeys}
                        \cup {<<"source-type", <<"gotemplate">>>>,
                              <<"source-path", path>>,
                              <<"source-file", obj.tmpl>>}]

Annotate(objs, path, enabled) ==
    IF enabled THEN [i \in 1..Len(objs) |-> AnnotateOne(objs[i], path)] ELSE objs

\* A filter accepts an object or not; "notB" rejects what file b rendered.
Accepts(filter, obj) == filter # "notB" \/ obj.tmpl # <<"b">>

\* A transformer changes an object; "envProd" sets the label env=prod,
\* "envDev" the label env=dev.
Transform(transformer, obj) ==
    IF transformer = "envProd"
    THEN [obj EXCEPT !.labels = {l \in @ : l[1] # "env"} \cup {<<"env", "prod">>}]
    ELSE IF transformer = "envDev"
    THEN [obj EXCEPT !.labels = {l \in @ : l[1] # "env"} \cup {<<"env", "dev">>}]
    ELSE obj

\* The transformers applied last to first.
RECURSIVE TransformReversed(_, _)
TransformReversed(ts, obj) ==
    IF ts = <<>> THEN obj
    ELSE TransformReversed(SubSeq(ts, 1, Len(ts) - 1), Transform(ts[Len(ts)], obj))

RECURSIVE TransformAll(_, _)
TransformAll(ts, obj) ==
    IF ts = <<>> THEN obj ELSE TransformAll(Tail(ts), Transform(Head(ts), obj))

\* New objects in memory: the heap with them, and their references.
Alloc(h, objs) ==
    [heap |-> h \o objs, refs |-> [i \in 1..Len(objs) |-> Len(h) + i]]

\* The same objects handed on instead of copies.
Alias(h, refs) == [heap |-> h, refs |-> refs]

\* A deep copy of the objects refs point to.
Clone(h, refs) == Alloc(h, [i \in 1..Len(refs) |-> h[refs[i]]])

\* The objects refs point to.
Deref(h, refs) == [i \in 1..Len(refs) |-> h[refs[i]]]

\* The pipeline over the combined set: keep what every filter accepts, in
\* order, then pass each kept object through every transformer.
Pipeline(h, refs, filters, transformers) ==
    LET kept == SelectSeq(refs, LAMBDA r :
                    \A i \in 1..Len(filters) : Accepts(filters[i], h[r]))
    IN [heap |-> [r \in 1..Len(h) |->
                     IF \E i \in 1..Len(kept) : kept[i] = r
                     THEN TransformAll(transformers, h[r]) ELSE h[r]],
        refs |-> kept]

\* LoadTemplates run to its end by one caller: the holder's templates
\* afterwards, what is returned, and whether ParseFS ran.
LoadTemplatesOf(stored, fs, path, newId) ==
    IF IsLoaded(stored)
    THEN [templates |-> stored, tmpl |-> stored, err |-> NoError, parsed |-> FALSE]
    ELSE LET r == ParseFS(fs, path, newId) IN
         IF ParseFailed(r)
         THEN [templates |-> stored, tmpl |-> NilTemplate,
               err |-> ParseError(path, r.err), parsed |-> TRUE]
         ELSE [templates |-> MissingKeyError(r.tmpl), tmpl |-> MissingKeyError(r.tmpl),
               err |-> NoError, parsed |-> TRUE]

(***************************************************************************)
(* sourceHolder.LoadTemplates, one step per statement                      *)
(***************************************************************************)
Call(c) ==
    /\ pc[c] = "idle"
    /\ calls < MaxCalls
    /\ calls' = calls + 1
    /\ pc' = [pc EXCEPT ![c] = "lock"]
    /\ ret' = [ret EXCEPT ![c] = [tmpl |-> NilTemplate, err |-> NoError]]
    /\ enteredLoaded' = [enteredLoaded EXCEPT ![c] = IsLoaded(templates)]
    /\ UNCHANGED <<files, hPath, templates, mu, tmpl, parseCount, failCount, fsChanges>>
    /\ UNCHANGED nonHolderVars

Lock(c) ==
    /\ pc[c] = "lock"
    /\ CanLock(mu)
    /\ mu' = c
    /\ pc' = [pc EXCEPT ![c] = "check"]
    /\ UNCHANGED <<files, hPath, templates, tmpl, ret, parseCount, failCount, calls, fsChanges, enteredLoaded>>
    /\ UNCHANGED nonHolderVars

Check(c) ==
    /\ pc[c] = "check"
    /\ IF IsLoaded(templates)
       THEN /\ ret' = [ret EXCEPT ![c] = [tmpl |-> templates, err |-> NoError]]
            /\ pc' = [pc EXCEPT ![c] = "unlock"]
       ELSE /\ pc' = [pc EXCEPT ![c] = "parse"]
            /\ UNCHANGED ret
    /\ UNCHANGED <<files, hPath, templates, mu, tmpl, parseCount, failCount, calls, fsChanges, enteredLoaded>>
    /\ UNCHANGED nonHolderVars

Parse(c) ==
    /\ pc[c] = "parse"
    /\ LET r == ParseFS(files, hPath, parseCount + 1) IN
       /\ parseCount' = parseCount + 1
       /\ IF ParseFailed(r)
          THEN /\ ret' = [ret EXCEPT ![c] = [tmpl |-> NilTemplate,
                                             err |-> ParseError(hPath, r.err)]]
               /\ failCount' = failCount + 1
               /\ pc' = [pc EXCEPT ![c] = "unlock"]
               /\ UNCHANGED tmpl
          ELSE /\ tmpl' = [tmpl EXCEPT ![c] = r.tmpl]
               /\ pc' = [pc EXCEPT ![c] = "store"]
               /\ UNCHANGED <<ret, failCount>>
    /\ UNCHANGED <<files, hPath, templates, mu, calls, fsChanges, enteredLoaded>>
    /\ UNCHANGED nonHolderVars

Store(c) ==
    /\ pc[c] = "store"
    /\ templates' = MissingKeyError(tmpl[c])
    /\ ret' = [ret EXCEPT ![c] = [tmpl |-> templates', err |-> NoError]]
    /\ pc' = [pc EXCEPT ![c] = "unlock"]
    /\ UNCHANGED <<files, hPath, mu, tmpl, parseCount, failCount, calls, fsChanges, enteredLoaded>>
    /\ UNCHANGED nonHolderVars

\* A variant that releases the guard only on the successful return paths.
UnlockOnSuccess(m, c, err) == IF m = c /\ err = NoError THEN 0 ELSE m

\* defer h.mu.Unlock(): runs on every return path, whatever is returned.
DeferUnlock(m, c, err) == IF m = c THEN 0 ELSE m

Unlock(c) ==
    /\ pc[c] = "unlock"
    /\ mu' = DeferUnlock(mu, c, ret[c].err)
    /\ pc' = [pc EXCEPT ![c] = "done"]
    /\ UNCHANGED <<files, hPath, templates, tmpl, ret, parseCount, failCount, calls, fsChanges, enteredLoaded>>
    /\ UNCHANGED nonHolderVars

\* The caller has its result and may call again later.
Finish(c) ==
    /\ pc[c] = "done"
    /\ calls < MaxCalls
    /\ pc' = [pc EXCEPT ![c] = "idle"]
    /\ enteredLoaded' = [enteredLoaded EXCEPT ![c] = FALSE]
    /\ UNCHANGED <<files, hPath, templates, mu, tmpl, ret, parseCount, failCount, calls, fsChanges>>
    /\ UNCHANGED nonHolderVars

\* The environment changes the backing file collection.
ChangeFS ==
    /\ fsChanges < MaxFsChanges
    /\ \E n \in FileNames : \E k \in FileKinds \ {files[n]} :
          files' = [files EXCEPT ![n] = k]
    /\ fsChanges' = fsChanges + 1
    /\ UNCHANGED <<hPath, templates, mu, pc, tmpl, ret, parseCount, failCount, calls, enteredLoaded>>
    /\ UNCHANGED nonHolderVars

KeyIdle ==
    /\ specA = [Path |-> <<>>, Values |-> NilValue]
    /\ specB = [Path |-> <<>>, Values |-> NilValue]
    /\ opts = NilOptions
    /\ cacheKF = "unset"
    /\ keyA = <<>>
    /\ keyB = <<>>

ProcIdle ==
    /\ inputs = <<>>
    /\ cfg = [annotations |-> FALSE, filters |-> <<>>, transformers |-> <<>>]
    /\ cache = NoMap
    /\ heap = <<>>
    /\ results = <<>>
    /\ expiries = 0
    /\ mutations = 0

\* No merge has been asked for.
Unmerged == [t |-> "unset", s |-> <<>>, m |-> NoMap]

MergeIdle ==
    /\ sourceValues = NilValue
    /\ renderTimeValues = NilValue
    /\ mergedValues = Unmerged

\* A Process call that has not begun.
NoCall == [rtv |-> NilValue, key |-> <<>>, refs |-> <<>>, objs |-> <<>>,
           err |-> NoError, hit |-> FALSE, mutated |-> FALSE]

RaceIdle ==
    /\ rpc = [c \in Callers |-> "idle"]
    /\ rcall = [c \in Callers |-> NoCall]

RestIdle ==
    /\ MergeIdle
    /\ RaceIdle

\* A holder nobody has called yet, over a file collection of good files.
HolderIdle ==
    /\ files = [n \in FileNames |-> "v1"]
    /\ hPath = <<"*">>
    /\ templates = NilTemplate
    /\ mu = 0
    /\ pc = [c \in Callers |-> "idle"]
    /\ tmpl = [c \in Callers |-> NilTemplate]
    /\ ret = [c \in Callers |-> [tmpl |-> NilTemplate, err |-> NoError]]
    /\ parseCount = 0
    /\ failCount = 0
    /\ calls = 0
    /\ fsChanges = 0
    /\ enteredLoaded = [c \in Callers |-> FALSE]
    /\ source = [FS |-> "fs", Path |-> hPath]
    /\ built = New(source)

Init ==
    /\ files \in InitialFiles
    /\ hPath \in HolderPaths
    /\ templates = NilTemplate
    /\ mu = 0
    /\ pc = [c \in Callers |-> "idle"]
    /\ tmpl = [c \in Callers |-> NilTemplate]
    /\ ret = [c \in Callers |-> [tmpl |-> NilTemplate, err |-> NoError]]
    /\ parseCount = 0
    /\ failCount = 0
    /\ calls = 0
    /\ fsChanges = 0
    /\ enteredLoaded = [c \in Callers |-> FALSE]
    /\ source = [FS |-> "fs", Path |-> hPath]
    /\ built = New(source)
    /\ built.kind = "renderer"
    /\ KeyIdle
    /\ ProcIdle
    /\ RestIdle

Next ==
    \/ \E c \in Callers : Call(c)
    \/ \E c \in Callers : Lock(c)
    \/ \E c \in Callers : Check(c)
    \/ \E c \in Callers : Parse(c)
    \/ \E c \in Callers : Store(c)
    \/ \E c \in Callers : Unlock(c)
    \/ \E c \in Callers : Finish(c)
    \/ ChangeFS

Spec == Init /\ [][Next]_vars

\* Scheduling of the goroutines inside LoadTemplates: a goroutine that can
\* take its next step eventually takes it, and a goroutine waiting on the
\* mutex is eventually handed it (sync.Mutex starvation mode).  Entering
\* LoadTemplates again (Call, Finish) and file changes are left to the
\* environment and carry no fairness.
Fairness ==
    \A c \in Callers :
       /\ SF_vars(Lock(c))
       /\ WF_vars(Check(c))
       /\ WF_vars(Parse(c))
       /\ WF_vars(Store(c))
       /\ WF_vars(Unlock(c))

\* The holder of one Source whose pattern selects every file; the file
\* collection still decides whether a compile succeeds or fails.
InitFair == Init /\ hPath = <<"*">>

SpecFair == InitFair /\ [][Next]_vars /\ Fairness

(***************************************************************************)
(* Claims about sourceHolder.LoadTemplates, checked under Spec             *)
(***************************************************************************)

\* C1: compile-once.  As long as no compile attempt has failed, ParseFS has
\* run at most once however the callers interleave; every caller that has
\* returned got the one stored template set without error, after exactly one
\* compile, so all callers hold the same set.
C1_CompileOnce ==
    failCount = 0 =>
        /\ parseCount <= 1
        /\ \A c \in Callers : pc[c] = "done" =>
              /\ parseCount = 1
              /\ ret[c].err = NoError
              /\ ret[c].tmpl # NilTemplate
              /\ ret[c].tmpl = templates
        /\ \A c, d \in Callers : (pc[c] = "done" /\ pc[d] = "done") =>
              ret[c].tmpl.id = ret[d].tmpl.id

\* Every caller has called and returned, nothing failed, one compile ran.
C1_Witness ==
    /\ calls >= NumCallers
    /\ \A c \in Callers : pc[c] = "done" /\ ret[c].tmpl # NilTemplate
    /\ failCount = 0
    /\ parseCount = 1

\* C2: once h.templates is non-empty no step changes it or compiles again,
\* whatever happens to the file collection, and a call that finds it returns
\* exactly the stored set.
C2_StoredSetIsFinal ==
    [][templates # NilTemplate =>
          /\ templates' = templates
          /\ parseCount' = parseCount
          /\ \A c \in Callers : (pc[c] = "check" /\ pc'[c] # "check") =>
                /\ pc'[c] = "unlock"
                /\ ret'[c] = [tmpl |-> templates, err |-> NoError]
      ]_vars

\* A caller that never compiled is returning the stored set although the
\* file collection would now compile to something else (or not at all).
C2_Witness ==
    /\ templates # NilTemplate
    /\ fsChanges > 0
    /\ ParseFS(files, hPath, templates.id).tmpl.body # templates.body
    /\ \E c \in Callers :
          /\ pc[c] = "unlock"
          /\ tmpl[c] = NilTemplate
          /\ ret[c].tmpl = templates

\* C3: a failed compile returns the wrapped error and no template set and
\* leaves h.templates empty; a call that finds the field empty compiles
\* (again), however many attempts failed before; the field is written only
\* by a successful compile while it is empty, and is never changed or
\* cleared afterwards.
C3_FailureDoesNotPoison ==
    [][/\ \A c \in Callers :
             (pc[c] = "parse" /\ pc'[c] # "parse"
                  /\ ParseFS(files, hPath, parseCount + 1).err # "nil") =>
                /\ pc'[c] = "unlock"
                /\ ret'[c].tmpl = NilTemplate
                /\ ret'[c].err.kind = "ParseError"
                /\ templates' = templates
                /\ templates' = NilTemplate
       /\ \A c \in Callers :
             (pc[c] = "check" /\ pc'[c] # "check" /\ templates = NilTemplate) =>
                pc'[c] = "parse"
       /\ (templates' # templates) =>
             /\ templates = NilTemplate
             /\ templates' # NilTemplate
             /\ \E c \in Callers :
                   /\ pc[c] = "store"
                   /\ tmpl[c] # NilTemplate
                   /\ templates'.id = tmpl[c].id
                   /\ templates'.body = tmpl[c].body
      ]_vars

\* A compile failed earlier and a later one succeeded and was stored.
C3_Witness ==
    /\ failCount >= 1
    /\ templates # NilTemplate
    /\ \E c \in Callers : pc[c] = "done" /\ ret[c].tmpl = templates

\* C6: a selector that matches no file makes LoadTemplates return a
\* ParseError and no template set and leaves h.templates empty; no stored or
\* returned template set is ever empty.
C6_NoMatchIsError ==
    /\ [][\A c \in Callers :
             (pc[c] = "parse" /\ pc'[c] # "parse" /\ Glob(files, hPath) = {}) =>
                /\ pc'[c] = "unlock"
                /\ ret'[c].tmpl = NilTemplate
                /\ ret'[c].err = ParseError(hPath, "pattern matches no files")
                /\ templates' = NilTemplate
         ]_vars
    /\ [](templates # NilTemplate => templates.body # {})
    /\ [](\A c \in Callers : ret[c].err = NoError => 
              (ret[c].tmpl = NilTemplate \/ ret[c].tmpl.body # {}))

\* A caller is returning the error of a selector that matched nothing.
C6_Witness ==
    \E c \in Callers :
        /\ pc[c] = "unlock"
        /\ ret[c].err = ParseError(hPath, "pattern matches no files")
        /\ ret[c].tmpl = NilTemplate
        /\ templates = NilTemplate

(***************************************************************************)
(* Construction as a state machine: a Source is drawn, then New or         *)
(* NewEngine is called on it.  The holder fields are those of Spec.        *)
(***************************************************************************)
InitNew ==
    /\ source \in Sources
    /\ built = NotBuilt
    /\ files = [n \in FileNames |-> "v1"]
    /\ hPath = <<>>
    /\ templates = NilTemplate
    /\ mu = 0
    /\ pc = [c \in Callers |-> "idle"]
    /\ tmpl = [c \in Callers |-> NilTemplate]
    /\ ret = [c \in Callers |-> [tmpl |-> NilTemplate, err |-> NoError]]
    /\ parseCount = 0
    /\ failCount = 0
    /\ calls = 0
    /\ fsChanges = 0
    /\ enteredLoaded = [c \in Callers |-> FALSE]
    /\ KeyIdle
    /\ ProcIdle
    /\ RestIdle

CallNew ==
    /\ built = NotBuilt
    /\ built' = New(source)
    /\ hPath' = IF built'.kind = "nil" THEN hPath ELSE source.Path
    /\ UNCHANGED <<source, files, templates, mu, pc, tmpl, ret, parseCount, failCount, calls, fsChanges, enteredLoaded>>
    /\ UNCHANGED <<keyVars, procVars, restVars>>

CallNewEngine ==
    /\ built = NotBuilt
    /\ built' = NewEngineOf(source)
    /\ hPath' = IF built'.kind = "nil" THEN hPath ELSE source.Path
    /\ UNCHANGED <<source, files, templates, mu, pc, tmpl, ret, parseCount, failCount, calls, fsChanges, enteredLoaded>>
    /\ UNCHANGED <<keyVars, procVars, restVars>>

NextNew ==
    \/ CallNew
    \/ CallNewEngine

SpecNew == InitNew /\ [][NextNew]_vars

(***************************************************************************)
(* Claims about construction, checked under SpecNew                        *)
(***************************************************************************)

InitKey ==
    /\ specA \in TemplateSpecs
    /\ specB \in TemplateSpecs
    /\ opts \in CacheOptions
    /\ cacheKF = "unset"
    /\ keyA = <<>>
    /\ keyB = <<>>
    /\ source = [FS |-> "fs", Path |-> specA.Path]
    /\ built = New(source)
    /\ files = [n \in FileNames |-> "v1"]
    /\ hPath = specA.Path
    /\ templates = NilTemplate
    /\ mu = 0
    /\ pc = [c \in Callers |-> "idle"]
    /\ tmpl = [c \in Callers |-> NilTemplate]
    /\ ret = [c \in Callers |-> [tmpl |-> NilTemplate, err |-> NoError]]
    /\ parseCount = 0
    /\ failCount = 0
    /\ calls = 0
    /\ fsChanges = 0
    /\ enteredLoaded = [c \in Callers |-> FALSE]
    /\ ProcIdle
    /\ RestIdle

\* newCache(opts)
NewCache ==
    /\ cacheKF = "unset"
    /\ cacheKF' = NewCacheKeyFunc(opts)
    /\ opts' = OptsAfterNewCache(opts)
    /\ UNCHANGED <<specA, specB, keyA, keyB>>
    /\ UNCHANGED <<holderVars, newVars, procVars, restVars>>

\* The cache derives the keys of both specs; each map is walked in whatever
\* order the runtime iterates it.
DeriveKeys ==
    /\ cacheKF \notin {"unset", "none"}
    /\ keyA = <<>>
    /\ \E oa, ob \in IterationOrders :
          /\ keyA' = ApplyKeyFunc(cacheKF, specA, oa)
          /\ keyB' = ApplyKeyFunc(cacheKF, specB, ob)
    /\ UNCHANGED <<specA, specB, opts, cacheKF>>
    /\ UNCHANGED <<holderVars, newVars, procVars, restVars>>

NextKey ==
    \/ NewCache
    \/ DeriveKeys

SpecKey == InitKey /\ [][NextKey]_vars

(***************************************************************************)
(* Claims about cache keys, checked under SpecKey                          *)
(***************************************************************************)

\* C8: under DefaultCacheKey two TemplateSpecs get the same key if and only
\* if their Paths are equal and their value trees are equal.
C8_SameKeyIffSameSpec ==
    (cacheKF = "DefaultCacheKey" /\ keyA # <<>>) =>
        ((keyA = keyB) <=> (specA.Path = specB.Path /\ specA.Values = specB.Values))

\* C10: after newCache, options without a key function have given a cache
\* that uses the default key function, and options with a key function a
\* cache that uses that very function; the keys the cache derives are those
\* of that function.
C10_DefaultOnlyWhenMissing ==
    (cacheKF # "unset" /\ opts.set) =>
        /\ opts.KeyFunc = "nil" => cacheKF = "cache.DefaultKeyFunc"
        /\ opts.KeyFunc # "nil" => cacheKF = opts.KeyFunc
        /\ (keyA # <<>> /\ opts.KeyFunc \in {"FastCacheKey", "PathOnlyCacheKey"}) =>
              (keyA = specA.Path /\ keyB = specB.Path)

\* A cache built from options that supplied FastCacheKey has derived a key
\* that the default function would not have produced.
C10_Witness ==
    /\ opts.set
    /\ opts.KeyFunc = "FastCacheKey"
    /\ cacheKF = "FastCacheKey"
    /\ keyA = specA.Path
    /\ specA.Values # NilValue

(***************************************************************************)
(* Renderer.Process as a state machine.  Process is one step: for each     *)
(* holder in order it resolves and merges the values, derives the cache    *)
(* key, and either copies the cached set or loads the templates, renders,  *)
(* annotates and caches a copy; then it runs the pipeline over the         *)
(* combined set.  The first error ends the call with no objects.           *)
(***************************************************************************)
MaxProcessCalls == 3

MaxExpiries == 1

MaxMutations == 1

Holder(path, values) == [Path |-> path, Values |-> values, templates |-> NilTemplate]

A1 == MapValue([k \in {"a"} |-> StrValue(<<"1">>)])

ProcInputs ==
    { <<Holder(<<"a">>, NilValue)>>,
      <<Holder(<<"*">>, A1), Holder(<<"a">>, NilValue)>>,
      <<Holder(<<"a">>, A1), Holder(<<"*">>, NilValue)>>,
      <<Holder(<<"a">>, A1), Holder(<<"a">>, FailingValues)>> }

ProcConfigs ==
    { [annotations |-> TRUE, filters |-> <<>>, transformers |-> <<>>],
      [annotations |-> FALSE, filters |-> <<"notB">>,
       transformers |-> <<"envDev", "envProd">>] }

ProcFiles ==
    { [n \in FileNames |-> "v1"],
      [n \in FileNames |-> IF n = <<"a">> THEN "v1" ELSE "bad"] }

\* The cache options the renderer is built with: none, options without a
\* key function, the default key strategy and a selector-only one.
ProcOptions ==
    {o \in CacheOptions : o.KeyFunc \in {"nil", "DefaultCacheKey", "FastCacheKey"}}

\* The renderTimeValues callers pass.
RenderTimeValues ==
    { NilValue,
      MapValue([k \in {"a"} |-> StrValue(<<"2">>)]),
      MapValue([k \in {"a"} |-> StrValue(<<"1", " ", "b", ":", "(string)", "1">>)]),
      MapValue([k \in Keys |-> StrValue(<<"1">>)]) }

\* The merged value tree of holder h for a call with rtv.
Merged(h, rtv) == DeepMerge(AsMap(ResolveValues(h).values), AsMap(rtv))

\* The cache key of holder h for a call with rtv.
CacheKeyOf(h, rtv) ==
    ApplyKeyFunc(cacheKF, [Path |-> h.Path, Values |-> Merged(h, rtv)], KeySeq)

Mutated == StrValue(<<"mutated">>)

\* A cache filled with what the pipeline leaves of a Source's objects.
SetFiltered(h, refs) ==
    LET p == Pipeline(h, refs, cfg.filters, cfg.transformers) IN Clone(p.heap, p.refs)

\* cache.Set(key, objects): the cache keeps a copy of the Source's objects.
CacheSet(h, refs) == Clone(h, refs)

\* One holder's share of Process, from the state st of the call so far.
ProcessSource(st, i, rtv) ==
    LET h == st.inputs[i]
        v == ResolveValues(h)
        merged == Merged(h, rtv)
        cached == cacheKF # "none"
        key == IF cached THEN CacheKeyOf(h, rtv) ELSE <<>>
        w == MergeWrites(v.values, rtv, merged)
        stv == [st EXCEPT !.tried = @ \cup {i}]
        st0 == IF v.err # NoError THEN stv
               ELSE [stv EXCEPT !.resolved = @ \cup {<<i, v.values>>},
                                !.rtvAfter = IF rtv.t = "map" THEN w.override ELSE @,
                                !.inputs[i].Values =
                                    IF h.Values.t = "map" THEN w.base ELSE @]
    IN
    IF v.err # NoError THEN [st0 EXCEPT !.err = v.err]
    ELSE
    IF cached /\ key \in DOMAIN st0.cache
    THEN LET c == Clone(st0.heap, st0.cache[key].refs) IN
         [st0 EXCEPT !.heap = c.heap, !.refs = @ \o c.refs, !.hits = @ \cup {i},
                     !.origin = @ \o [n \in 1..Len(c.refs) |-> i],
                     !.served = @ \cup {<<i, st0.cache[key].at>>}]
    ELSE
    LET l == LoadTemplatesOf(h.templates, files, h.Path, st0.parses + 1)
        st1 == [st0 EXCEPT !.inputs[i].templates = l.templates,
                          !.parses = IF l.parsed THEN @ + 1 ELSE @,
                          !.ran = @ \cup {i}]
    IN
    IF l.err # NoError THEN [st1 EXCEPT !.err = l.err]
    ELSE
    LET r == Render(l.tmpl, h.Path, merged)
        st2 == [st1 EXCEPT !.loaded = @ \cup {l.tmpl},
                           !.missing = @ \/ (Undefined(l.tmpl, merged) # {})]
    IN
    IF r.err # NoError THEN [st2 EXCEPT !.err = r.err]
    ELSE
    LET a == Alloc(st2.heap, Annotate(r.objs, h.Path, cfg.annotations))
        c == CacheSet(a.heap, a.refs)
    IN
    [st2 EXCEPT !.heap = IF cached THEN c.heap ELSE a.heap,
                !.refs = @ \o a.refs,
                !.origin = @ \o [n \in 1..Len(a.refs) |-> i],
                !.cache = IF cached
                          THEN [k \in (DOMAIN @) \cup {key} |->
                                   IF k = key
                                   THEN [refs |-> c.refs, stored |-> Deref(c.heap, c.refs),
                                         at |-> <<st.call, i>>]
                                   ELSE @[k]]
                          ELSE @]

RECURSIVE ProcessFrom(_, _, _)
ProcessFrom(st, i, rtv) ==
    IF i > Len(st.inputs) \/ ProcessFailed(st.err) THEN st
    ELSE \* the state after source i, evaluated once
         CHOOSE out \in {ProcessFrom(next, i + 1, rtv) : next \in {ProcessSource(st, i, rtv)}} :
            TRUE

InitProc ==
    /\ inputs \in ProcInputs
    /\ \A i \in 1..Len(inputs) : Validate([FS |-> "fs", Path |-> inputs[i].Path]) = <<>>
    /\ cfg \in ProcConfigs
    /\ opts \in ProcOptions
    /\ cacheKF = NewCacheKeyFunc(opts)
    /\ files \in ProcFiles
    /\ cache = NoMap
    /\ heap = <<>>
    /\ results = <<>>
    /\ expiries = 0
    /\ mutations = 0
    /\ RestIdle
    /\ specA = [Path |-> <<>>, Values |-> NilValue]
    /\ specB = [Path |-> <<>>, Values |-> NilValue]
    /\ keyA = <<>>
    /\ keyB = <<>>
    /\ source = [FS |-> "fs", Path |-> inputs[1].Path]
    /\ built = New(source)
    /\ hPath = inputs[1].Path
    /\ templates = NilTemplate
    /\ mu = 0
    /\ pc = [c \in Callers |-> "idle"]
    /\ tmpl = [c \in Callers |-> NilTemplate]
    /\ ret = [c \in Callers |-> [tmpl |-> NilTemplate, err |-> NoError]]
    /\ parseCount = 0
    /\ failCount = 0
    /\ calls = 0
    /\ fsChanges = 0
    /\ enteredLoaded = [c \in Callers |-> FALSE]

\* Process(ctx, renderTimeValues)
Process(rtv) ==
    /\ Len(results) < MaxProcessCalls
    /\ \E st \in {ProcessFrom([cache |-> cache, heap |-> heap, inputs |-> inputs,
                              refs |-> <<>>, err |-> NoError, hits |-> {}, tried |-> {},
                              origin |-> <<>>, served |-> {},
                              resolved |-> {}, rtvAfter |-> rtv,
                              ran |-> {}, loaded |-> {}, missing |-> FALSE,
                              parses |-> parseCount, call |-> Len(results) + 1], 1, rtv)} :
       \E p \in {IF ProcessFailed(st.err)
                 THEN [heap |-> st.heap, refs |-> <<>>]
                 ELSE Pipeline(st.heap, st.refs, cfg.filters, cfg.transformers)} :
          /\ cache' = st.cache
          /\ heap' = p.heap
          /\ inputs' = st.inputs
          /\ parseCount' = st.parses
          /\ results' = Append(results,
                [rtv |-> rtv, err |-> st.err, refs |-> p.refs,
                 objs |-> Deref(p.heap, p.refs), hits |-> st.hits, ran |-> st.ran,
                 loaded |-> st.loaded, missing |-> st.missing,
                 tried |-> st.tried, collected |-> Deref(st.heap, st.refs),
                 origin |-> st.origin, served |-> st.served,
                 resolved |-> st.resolved, rtvAfter |-> st.rtvAfter,
                 epoch |-> expiries, mutAt |-> 0])
    /\ UNCHANGED <<cfg, expiries, mutations>>
    /\ UNCHANGED <<files, hPath, templates, mu, pc, tmpl, ret, failCount, calls, fsChanges, enteredLoaded>>
    /\ UNCHANGED <<newVars, keyVars, restVars>>

\* The caller changes every object the latest Process call returned to it.
Mutate ==
    /\ mutations < MaxMutations
    /\ results # <<>>
    /\ LET i == Len(results)
           mine == {results[i].refs[k] : k \in 1..Len(results[i].refs)}
       IN /\ mine # {}
          /\ heap' = [r \in 1..Len(heap) |->
                         IF r \in mine THEN [heap[r] EXCEPT !.data = Mutated]
                         ELSE heap[r]]
          /\ results' = [results EXCEPT ![i].mutAt = i]
    /\ mutations' = mutations + 1
    /\ UNCHANGED <<inputs, cfg, cache, expiries>>
    /\ UNCHANGED <<holderVars, newVars, keyVars, restVars>>

\* Entry x was stored no later than entry y.
NotAfter(x, y) == x.at[1] < y.at[1] \/ (x.at[1] = y.at[1] /\ x.at[2] <= y.at[2])

\* The time-to-live of the oldest cache entry runs out.
Expire ==
    /\ expiries < MaxExpiries
    /\ \E key \in DOMAIN cache :
          /\ \A k \in DOMAIN cache : NotAfter(cache[key], cache[k])
          /\ cache' = [k \in (DOMAIN cache) \ {key} |-> cache[k]]
    /\ expiries' = expiries + 1
    /\ UNCHANGED <<inputs, cfg, heap, results, mutations>>
    /\ UNCHANGED <<holderVars, newVars, keyVars, restVars>>

NextProc ==
    \/ \E rtv \in RenderTimeValues : Process(rtv)
    \/ Mutate
    \/ Expire

SpecProc == InitProc /\ [][NextProc]_vars

(***************************************************************************)
(* Claims about Process                                                    *)
(***************************************************************************)
\* C4: a template that references an undefined value field yields an
\* ExecutionError and no object: every template set a holder stores or
\* LoadTemplates hands to a call, freshly compiled or stored, has
\* missingkey=error set; a call in which an executed template referenced a
\* field its values do not define ended in an ExecutionError without
\* objects; and no object anywhere carries the blank substitution.
C4_StrictLookup ==
    /\ \A i \in DOMAIN inputs :
          inputs[i].templates # NilTemplate => inputs[i].templates.strict
    /\ \A j \in DOMAIN results :
          /\ \A t \in results[j].loaded : t.strict
          /\ results[j].missing =>
                (results[j].err.kind = "ExecutionError" /\ results[j].objs = <<>>)
    /\ \A r \in DOMAIN heap : heap[r].data # NoValue

\* A call that got the stored set, compiled by an earlier call, executed a
\* template referencing an undefined field and ended in an ExecutionError.
C4_Witness ==
    \E j \in DOMAIN results :
       /\ results[j].missing
       /\ results[j].err.kind = "ExecutionError"
       /\ \E k \in 1..(j - 1) : results[k].loaded \cap results[j].loaded # {}

ValueAt(v, k) == IF k \in DOMAIN v.m THEN v.m[k] ELSE NilValue

\* The holders for which two renderTimeValues give merged values that
\* differ at a field one of the holder's templates references.
DifferAtConsumed(rtv1, rtv2) ==
    {s \in DOMAIN inputs :
        \E n \in Glob(files, inputs[s].Path) :
           ValueAt(Merged(inputs[s], rtv1), n[1]) # ValueAt(Merged(inputs[s], rtv2), n[1])}

\* C9: of two consecutive successful Process calls within the TTL whose
\* values differ at a field the templates consume, under the default key
\* strategy the second uses other cache keys than the first and returns
\* other objects; under FastCacheKey or PathOnlyCacheKey every key is the
\* Path and the second call returns what the first call produced.
C9_KeySensitivity ==
    \A i \in 1..(Len(results) - 1) :
       (results[i].epoch = results[i + 1].epoch /\ results[i].err = NoError) =>
          /\ (/\ cacheKF \in {"DefaultCacheKey", "cache.DefaultKeyFunc"}
              /\ results[i + 1].err = NoError
              /\ DifferAtConsumed(results[i].rtv, results[i + 1].rtv) # {}) =>
                 /\ results[i + 1].objs # results[i].objs
                 /\ \A s \in DifferAtConsumed(results[i].rtv, results[i + 1].rtv) :
                       CacheKeyOf(inputs[s], results[i].rtv)
                          # CacheKeyOf(inputs[s], results[i + 1].rtv)
          /\ cacheKF \in {"FastCacheKey", "PathOnlyCacheKey"} =>
                 /\ \A s \in DOMAIN inputs :
                       /\ CacheKeyOf(inputs[s], results[i].rtv) = inputs[s].Path
                       /\ CacheKeyOf(inputs[s], results[i + 1].rtv) = inputs[s].Path
                 /\ results[i + 1].ran = {}
                 /\ results[i + 1].err = NoError
                 /\ results[i + 1].objs = results[i].objs

(***************************************************************************)
(* util.DeepMerge as a state machine: the Source's values and the          *)
(* render-time values are drawn, and the merge is applied the way Process  *)
(* applies it.                                                             *)
(***************************************************************************)
MergeLeaves == {StrValue(<<"1">>), StrValue(<<"2">>)}

\* Mappings three levels deep; below the top level only key a is used.
DeepMaps == {MapValue(f) : f \in [{} -> MergeLeaves] \cup [{"a"} -> MergeLeaves]}

MidMaps ==
    {MapValue(f) : f \in [{} -> MergeLeaves] \cup [{"a"} -> MergeLeaves \cup DeepMaps]}

MergeTrees == {NilValue} \cup {MapValue(f) : f \in MapsOver(MergeLeaves \cup MidMaps)}

InitMerge ==
    /\ sourceValues \in MergeTrees
    /\ renderTimeValues \in MergeTrees
    /\ mergedValues = Unmerged
    /\ RaceIdle
    /\ HolderIdle
    /\ KeyIdle
    /\ ProcIdle

\* mergedValues := util.DeepMerge(sourceValues, renderTimeValues)
MergeValues ==
    /\ mergedValues = Unmerged
    /\ mergedValues' = DeepMerge(AsMap(sourceValues), AsMap(renderTimeValues))
    /\ UNCHANGED <<sourceValues, renderTimeValues>>
    /\ UNCHANGED <<holderVars, newVars, keyVars, procVars, raceVars>>

NextMerge == MergeValues

SpecMerge == InitMerge /\ [][NextMerge]_vars

(***************************************************************************)
(* Claims about the merge, checked under SpecMerge                         *)
(***************************************************************************)
\* r relates to b and o as the merge law demands, at this level and below.
RECURSIVE ObeysMergeLaw(_, _, _)
ObeysMergeLaw(b, o, r) ==
    /\ r.t = "map"
    /\ DOMAIN r.m = (DOMAIN b.m) \cup (DOMAIN o.m)
    /\ \A k \in DOMAIN r.m :
          IF k \notin DOMAIN o.m THEN r.m[k] = b.m[k]
          ELSE IF o.m[k].t # "map" THEN r.m[k] = o.m[k]
          ELSE IF k \in DOMAIN b.m /\ b.m[k].t = "map"
          THEN ObeysMergeLaw(b.m[k], o.m[k], r.m[k])
          ELSE r.m[k] = o.m[k]

\* C11: merging with empty render-time values gives the Source's values; a
\* non-mapping leaf of the render-time values wins whatever the Source's
\* values hold at its key; two mappings at one key are merged key by key,
\* recursively; keys the render-time values lack keep the Source's value.
C11_MergeLaw ==
    mergedValues # Unmerged =>
        /\ AsMap(renderTimeValues) = EmptyMap => mergedValues = AsMap(sourceValues)
        /\ ObeysMergeLaw(AsMap(sourceValues), AsMap(renderTimeValues), mergedValues)

\* A merge in which a render-time leaf replaced a mapping of the Source at
\* the top, and two levels down a mapping only the Source fills was kept.
C11_Witness ==
    /\ mergedValues # Unmerged
    /\ sourceValues.t = "map" /\ renderTimeValues.t = "map"
    /\ DOMAIN sourceValues.m = Keys /\ DOMAIN renderTimeValues.m = Keys
    /\ sourceValues.m["b"].t = "map" /\ renderTimeValues.m["b"].t = "string"
    /\ sourceValues.m["a"].t = "map" /\ renderTimeValues.m["a"].t = "map"
    /\ "a" \in DOMAIN sourceValues.m["a"].m /\ "a" \in DOMAIN renderTimeValues.m["a"].m
    /\ sourceValues.m["a"].m["a"].t = "map" /\ renderTimeValues.m["a"].m["a"].t = "map"
    /\ "a" \in DOMAIN sourceValues.m["a"].m["a"].m
    /\ renderTimeValues.m["a"].m["a"] = EmptyMap
    /\ mergedValues.m["a"].m["a"] = sourceValues.m["a"].m["a"]
    /\ mergedValues.m["b"] = renderTimeValues.m["b"]

RECURSIVE Composed(_, _)
Composed(ts, obj) ==
    IF ts = <<>> THEN obj
    ELSE Transform(ts[Len(ts)], Composed(SubSeq(ts, 1, Len(ts) - 1), obj))

\* The positions of the collected objects every filter accepts.
Retained(objs) ==
    {i \in DOMAIN objs : \A n \in DOMAIN cfg.filters : Accepts(cfg.filters[n], objs[i])}

\* C13: what a successful Process call returned is the collected objects
\* that every filter accepts, in their collected order, each as the last
\* transformer left it after the transformers ran in configuration order.
C13_PipelineComposition ==
    \A j \in DOMAIN results :
       results[j].err = NoError =>
          LET pre == results[j].collected
              out == results[j].objs
          IN /\ Len(out) = Cardinality(Retained(pre))
             /\ \E f \in [DOMAIN out -> Retained(pre)] :
                   /\ \A m, n \in DOMAIN out : m < n => f[m] < f[n]
                   /\ \A n \in DOMAIN out : out[n] = Composed(cfg.transformers, pre[f[n]])

\* Objects rendered from a, b, a with a filter rejecting b's and the
\* transformers env=dev then env=prod: the two a objects came back, in
\* order, carrying env=prod.
C13_Witness ==
    \E j \in DOMAIN results :
       /\ results[j].err = NoError
       /\ cfg.filters = <<"notB">>
       /\ cfg.transformers = <<"envDev", "envProd">>
       /\ Len(results[j].collected) = 3
       /\ results[j].collected[2].tmpl = <<"b">>
       /\ Len(results[j].objs) = 2
       /\ \A n \in 1..2 :
             /\ results[j].objs[n].tmpl = <<"a">>
             /\ results[j].objs[n].labels = {<<"env", "prod">>}

\* The values an object's annotations hold under a key.
AnnotationsAt(obj, key) == {a[2] : a \in {b \in obj.ann : b[1] = key}}

\* C14: with annotations enabled every object Process collected and every
\* object it returned holds, under each of the three provenance keys,
\* exactly the renderer kind, the selector of the Source it came from and
\* the name of its template, whatever the manifest had there, and keeps its
\* other annotations; with annotations disabled every object has just the
\* annotations of its manifest.
C14_ProvenanceToggle ==
    \A j \in DOMAIN results :
       LET pre == results[j].collected
           from == results[j].origin
           Other(o) == {a \in o.ann : a[1] \notin SourceAnnotationKeys}
           Kept(o) == {a \in ManifestAnnotations(o.tmpl) : a[1] \notin SourceAnnotationKeys}
       IN
       IF cfg.annotations
       THEN /\ \A n \in DOMAIN pre :
                  /\ AnnotationsAt(pre[n], "source-type") = {<<"gotemplate">>}
                  /\ AnnotationsAt(pre[n], "source-path") = {inputs[from[n]].Path}
                  /\ AnnotationsAt(pre[n], "source-file") = {pre[n].tmpl}
                  /\ Other(pre[n]) = Kept(pre[n])
            /\ \A n \in DOMAIN results[j].objs :
                  LET o == results[j].objs[n] IN
                  /\ AnnotationsAt(o, "source-type") = {<<"gotemplate">>}
                  /\ AnnotationsAt(o, "source-file") = {o.tmpl}
                  /\ \E i \in DOMAIN inputs :
                        AnnotationsAt(o, "source-path") = {inputs[i].Path}
       ELSE /\ \A n \in DOMAIN pre : pre[n].ann = ManifestAnnotations(pre[n].tmpl)
            /\ \A n \in DOMAIN results[j].objs :
                  results[j].objs[n].ann = ManifestAnnotations(results[j].objs[n].tmpl)

\* With annotations enabled Process returned an object whose manifest had a
\* source-type of its own, from a call whose Sources have different
\* selectors.
C14_Witness ==
    /\ cfg.annotations
    /\ \E j \in DOMAIN results :
          /\ results[j].err = NoError
          /\ \E m, n \in DOMAIN results[j].objs :
                /\ results[j].objs[n].tmpl = <<"b">>
                /\ <<"source-type", <<"gotemplate">>>> \in results[j].objs[n].ann
                /\ <<"note", <<"x">>>> \in results[j].objs[n].ann
                /\ AnnotationsAt(results[j].objs[m], "source-path")
                      # AnnotationsAt(results[j].objs[n], "source-path")

(***************************************************************************)
(* Further claims about LoadTemplates, checked under Spec                  *)
(***************************************************************************)
\* C15: a caller that began LoadTemplates when the compiled-template field
\* was populated returns the stored set without acquiring the exclusive
\* guard: no such caller ever holds h.mu exclusively.
C15_FastPathSkipsExclusiveGuard ==
    \A c \in Callers : enteredLoaded[c] => mu # c

\* The objects call j collected for its Source i, in order.
CollectedFor(j, i) ==
    LET pre == results[j].collected
        from == results[j].origin
    IN [n \in 1..Cardinality({m \in DOMAIN pre : from[m] = i}) |->
           pre[CHOOSE m \in DOMAIN pre :
                  /\ from[m] = i
                  /\ Cardinality({x \in 1..m : from[x] = i}) = n]]

AB1 == MapValue([k \in Keys |-> StrValue(<<"1">>)])

RaceOptions == {o \in CacheOptions : o.set /\ o.KeyFunc \in {"nil", "FastCacheKey"}}

InitRace ==
    /\ inputs = <<Holder(<<"*">>, AB1)>>
    /\ cfg \in ProcConfigs
    /\ opts \in RaceOptions
    /\ cacheKF = NewCacheKeyFunc(opts)
    /\ cache = NoMap
    /\ heap = <<>>
    /\ results = <<>>
    /\ expiries = 0
    /\ mutations = 0
    /\ RaceIdle
    /\ MergeIdle
    /\ HolderIdle
    /\ specA = [Path |-> <<>>, Values |-> NilValue]
    /\ specB = [Path |-> <<>>, Values |-> NilValue]
    /\ keyA = <<>>
    /\ keyB = <<>>

\* Process begins: values are merged, the key derived and looked up; a hit
\* takes a copy of the entry.
Get(c, rtv) ==
    /\ rpc[c] = "idle"
    /\ LET key == CacheKeyOf(inputs[1], rtv) IN
       IF key \in DOMAIN cache
       THEN LET cp == Clone(heap, cache[key].refs) IN
            /\ heap' = cp.heap
            /\ rcall' = [rcall EXCEPT ![c] =
                            [NoCall EXCEPT !.rtv = rtv, !.key = key,
                                           !.refs = cp.refs, !.hit = TRUE]]
            /\ rpc' = [rpc EXCEPT ![c] = "return"]
       ELSE /\ rcall' = [rcall EXCEPT ![c] = [NoCall EXCEPT !.rtv = rtv, !.key = key]]
            /\ rpc' = [rpc EXCEPT ![c] = "render"]
            /\ UNCHANGED heap
    /\ UNCHANGED <<inputs, cfg, cache, results, expiries, mutations>>
    /\ UNCHANGED <<holderVars, newVars, keyVars, mergeVars>>

\* After a miss: load the templates, render, annotate, and write a copy of
\* the set into the cache, over whatever another caller wrote meanwhile.
Fill(c) ==
    /\ rpc[c] = "render"
    /\ LET h == inputs[1]
           l == LoadTemplatesOf(h.templates, files, h.Path, parseCount + 1)
           r == Render(l.tmpl, h.Path, Merged(h, rcall[c].rtv))
           a == Alloc(heap, Annotate(r.objs, h.Path, cfg.annotations))
           cp == CacheSet(a.heap, a.refs)
       IN /\ inputs' = [inputs EXCEPT ![1].templates = l.templates]
          /\ parseCount' = IF l.parsed THEN parseCount + 1 ELSE parseCount
          /\ IF l.err # NoError \/ r.err # NoError
             THEN /\ rcall' = [rcall EXCEPT ![c].err = IF l.err # NoError THEN l.err ELSE r.err]
                  /\ UNCHANGED <<heap, cache>>
             ELSE /\ heap' = cp.heap
                  /\ cache' = [k \in (DOMAIN cache) \cup {rcall[c].key} |->
                                  IF k = rcall[c].key
                                  THEN [refs |-> cp.refs, stored |-> Deref(cp.heap, cp.refs),
                                        at |-> <<c, 1>>]
                                  ELSE cache[k]]
                  /\ rcall' = [rcall EXCEPT ![c].refs = a.refs]
    /\ rpc' = [rpc EXCEPT ![c] = "return"]
    /\ UNCHANGED <<cfg, results, expiries, mutations>>
    /\ UNCHANGED <<files, hPath, templates, mu, pc, tmpl, ret, failCount, calls, fsChanges, enteredLoaded>>
    /\ UNCHANGED <<newVars, keyVars, mergeVars>>

\* The pipeline runs over the caller's objects and Process returns.
Return(c) ==
    /\ rpc[c] = "return"
    /\ LET p == IF ProcessFailed(rcall[c].err)
                THEN [heap |-> heap, refs |-> <<>>]
                ELSE Pipeline(heap, rcall[c].refs, cfg.filters, cfg.transformers)
       IN /\ heap' = p.heap
          /\ rcall' = [rcall EXCEPT ![c].refs = p.refs, ![c].objs = Deref(p.heap, p.refs)]
    /\ rpc' = [rpc EXCEPT ![c] = "done"]
    /\ UNCHANGED <<inputs, cfg, cache, results, expiries, mutations>>
    /\ UNCHANGED <<holderVars, newVars, keyVars, mergeVars>>

\* A caller changes every object its Process call returned to it.
MutateOwn(c) ==
    /\ rpc[c] = "done"
    /\ mutations < MaxMutations
    /\ ~rcall[c].mutated
    /\ rcall[c].refs # <<>>
    /\ LET mine == {rcall[c].refs[k] : k \in DOMAIN rcall[c].refs} IN
       heap' = [r \in 1..Len(heap) |->
                   IF r \in mine THEN [heap[r] EXCEPT !.data = Mutated] ELSE heap[r]]
    /\ rcall' = [rcall EXCEPT ![c].mutated = TRUE]
    /\ mutations' = mutations + 1
    /\ UNCHANGED <<inputs, cfg, cache, results, expiries, rpc>>
    /\ UNCHANGED <<holderVars, newVars, keyVars, mergeVars>>

NextRace ==
    \/ \E c \in Callers : \E rtv \in RenderTimeValues : Get(c, rtv)
    \/ \E c \in Callers : Fill(c)
    \/ \E c \in Callers : Return(c)
    \/ \E c \in Callers : MutateOwn(c)

SpecRace == InitRace /\ [][NextRace]_vars

(***************************************************************************)
(* Claims about concurrent Process calls, checked under SpecRace           *)
(***************************************************************************)
\* What one Process call with rtv, alone on a cold cache, collects for the
\* Source and what it returns.
SequentialCollected(rtv) ==
    LET h == inputs[1]
        l == LoadTemplatesOf(NilTemplate, files, h.Path, 1)
    IN Annotate(Render(l.tmpl, h.Path, Merged(h, rtv)).objs, h.Path, cfg.annotations)

SequentialResult(rtv) ==
    LET a == Alloc(<<>>, SequentialCollected(rtv))
        p == Pipeline(a.heap, a.refs, cfg.filters, cfg.transformers)
    IN Deref(p.heap, p.refs)

\* The callers that have begun a Process call with the cache key of c.
SameKey(c) == {d \in Callers : rpc[d] # "idle" /\ rcall[d].key = rcall[c].key}

\* C17 as stated: of the Process calls that ran against one cache key from a
\* cold cache, each returned what a call alone would have returned for its
\* values, the cache entry of the key is what such a call would have
\* stored, and no entry was changed after it was written.
C17_RaceIsBenign ==
    /\ \A c \in Callers :
          /\ rpc[c] = "done" => rcall[c].objs = SequentialResult(rcall[c].rtv)
          /\ (rpc[c] # "idle" /\ rcall[c].key \in DOMAIN cache) =>
                cache[rcall[c].key].stored = SequentialCollected(rcall[c].rtv)
    /\ \A k \in DOMAIN cache : Deref(heap, cache[k].refs) = cache[k].stored

\* C17 amended: the same, for the calls whose merged values equal those of
\* every other call that ran against their cache key.
C17_RaceIsBenignForEqualValues ==
    /\ \A c \in Callers :
          (\A d \in SameKey(c) :
              Merged(inputs[1], rcall[d].rtv) = Merged(inputs[1], rcall[c].rtv)) =>
             /\ rpc[c] = "done" => rcall[c].objs = SequentialResult(rcall[c].rtv)
             /\ (rpc[c] # "idle" /\ rcall[c].key \in DOMAIN cache) =>
                   cache[rcall[c].key].stored = SequentialCollected(rcall[c].rtv)
    /\ \A k \in DOMAIN cache : Deref(heap, cache[k].refs) = cache[k].stored

\* Two callers with equal values both missed the cold cache, both wrote
\* the entry and returned, and the one whose entry was overwritten then
\* changed its objects.
C17_Witness ==
    \E c, d \in Callers :
       /\ c # d
       /\ rpc[c] = "done" /\ rpc[d] = "done"
       /\ ~rcall[c].hit /\ ~rcall[d].hit
       /\ rcall[c].key = rcall[d].key
       /\ Merged(inputs[1], rcall[c].rtv) = Merged(inputs[1], rcall[d].rtv)
       /\ rcall[c].key \in DOMAIN cache
       /\ cache[rcall[c].key].at[1] = d
       /\ rcall[c].mutated
       /\ rcall[d].objs # <<>>
       /\ rcall[d].objs = SequentialResult(rcall[d].rtv)

C19_GuardReleasedOnEveryPath ==
    /\ [](\A c \in Callers : pc[c] \in {"idle", "lock", "done"} => mu # c)
    /\ \A c \in Callers : (pc[c] = "lock") ~> (pc[c] = "done")

\* A caller has returned a compile failure and another caller holds the
\* guard after it.
C19_Witness ==
    \E c, d \in Callers :
       /\ c # d
       /\ pc[c] = "done"
       /\ ret[c].err # NoError
       /\ mu = d
       /\ pc[d] \in {"check", "parse", "store", "unlock"}

(***************************************************************************)
(* C20                                                                     *)
(***************************************************************************)
\* C20: newCache leaves the caller's options unchanged and gives no cache
\* for absent options: the step that builds the cache changes nothing in
\* opts, nil options give no cache, options without a key function give a
\* cache using the default while opts.KeyFunc stays empty, and building
\* another cache from the same options afterwards gives the same result.
C20_OptionsUnchanged ==
    /\ [][(cacheKF = "unset" /\ cacheKF' # "unset") =>
             /\ opts' = opts
             /\ ~opts.set => cacheKF' = "none"
             /\ opts.set => cacheKF' # "none"
             /\ (opts.set /\ opts.KeyFunc = "nil") =>
                   (cacheKF' = "cache.DefaultKeyFunc" /\ opts'.KeyFunc = "nil")]_vars
    /\ [](cacheKF # "unset" =>
             (NewCacheKeyFunc(opts) = cacheKF /\ OptsAfterNewCache(opts) = opts))

\* Options without a key function have produced a cache that uses the
\* default and has derived keys, and the options still have no key function.
C20_Witness ==
    /\ opts.set
    /\ opts.KeyFunc = "nil"
    /\ cacheKF = "cache.DefaultKeyFunc"
    /\ keyA # <<>>

====
